---- MODULE Spec2Model ----
(***************************************************************************)
(* Order-management backend (FastAPI + SQLAlchemy): the order-creation     *)
(* transaction with stock reservation, order deletion and status update,   *)
(* and the product operations that touch the rows an order reads.          *)
(*                                                                         *)
(* Every request runs in its own SQLAlchemy session.  A session reads the  *)
(* committed tables one statement at a time, keeps the rows it has loaded  *)
(* in its identity map, and its writes become visible to other sessions    *)
(* when it commits.  The services ask for no row lock and no isolation     *)
(* level, so statements of concurrent requests interleave freely.          *)
(* Prices are in cents.                                                    *)
(***************************************************************************)
EXTENDS Integers, Sequences, FiniteSets, TLC

\* ---------------------------------------------------------------- bounds
MaxStock == 2
MaxCalls == 2
MaxOps == 1
MaxRequests == 3

Sessions == {"s1", "s2"}
ProductIds == {1, 2}
Quantities == {1, 2}
ItemCounts == {0, 1, 2}
PriceValues == {1000, 2550}
HeaderInputs == {<<2, "">>}

VARIABLES
    users,          \* table users: usr_id -> row
    products,       \* table products: prd_id -> row (committed)
    orders,         \* table orders: ord_id -> row (committed)
    orders_items,   \* table orders_items: committed rows in ord_it_id order
    ord_id_seq,     \* next value of the orders primary-key sequence
    prd_id_seq,     \* next value of the products primary-key sequence
    sess,           \* per session: the request in progress and its ORM state
    pre,            \* per session: the committed tables when its request began
    calls,          \* create-order requests begun so far
    ops,            \* other requests begun so far
    usr_id_seq,     \* next value of the users primary-key sequence
    now,            \* the clock, in minutes
    issued,         \* the tokens the server has signed so far
    clients,        \* table clients: cli_id -> row
    cli_id_seq      \* next value of the clients primary-key sequence

vars == <<users, products, orders, orders_items, ord_id_seq, prd_id_seq,
          sess, pre, calls, ops, usr_id_seq, now, issued, clients, cli_id_seq>>

\* What the order and product services never touch.
authvars == <<usr_id_seq, now, issued, clients, cli_id_seq>>

\* ------------------------------------------------------------ data shapes
NoIdentity == [p \in {} |-> [prd_price |-> 0, prd_current_stock |-> 0]]

NoData == [f \in {} |-> 0]

NoReq == [op |-> "none", usr |-> 0, ord_status |-> "", items |-> <<>>,
          id |-> 0, data |-> NoData]

NoResp == [code |-> 0, prd |-> 0]

IdleSession == [pc |-> "idle", req |-> NoReq, ord_id |-> 0, idx |-> 0,
                identity |-> NoIdentity, new_items |-> <<>>, resp |-> NoResp]

Tables == [products |-> products, orders |-> orders, orders_items |-> orders_items]

NoTables == [products |-> NoIdentity, orders |-> NoIdentity, orders_items |-> <<>>]

ItemLists ==
    UNION {[1 .. n -> [ord_prd_id : ProductIds, ord_it_quant : Quantities]] : n \in ItemCounts}

Resp(code, prd) == [code |-> code, prd |-> prd]

\* ------------------------------------------------ create_order_service

\* Faulty variant of OrderHeader: the status is stored as it came.
OrderHeaderVerbatim(u, st) == [ord_usr_id |-> u, ord_status |-> st]

\* The header row the service builds: a falsy status falls back to "PENDING".
OrderHeader(u, st) ==
    [ord_usr_id |-> u, ord_status |-> IF st = "" THEN "PENDING" ELSE st]

\* Faulty variant of QueryProduct: every query reads the committed row afresh.
QueryProductCommitted(se, p) ==
    [prd_price |-> products[p].prd_price,
     prd_current_stock |-> products[p].prd_current_stock]

\* db.query(Product).filter(prd_id == p).first() inside session se: the row must
\* exist in the committed table; a row the session already holds in its identity
\* map keeps the attribute values the session has.
QueryProduct(se, p) ==
    IF p \in DOMAIN se.identity THEN se.identity[p] ELSE
        [prd_price |-> products[p].prd_price,
         prd_current_stock |-> products[p].prd_current_stock]

\* Faulty variant of InsufficientStock: the comparison is off by one.
InsufficientStockOffByOne(stock, quant) == stock + 1 < quant

\* Line 48: product.prd_current_stock < item_data.ord_it_quant
InsufficientStock(stock, quant) == stock < quant

\* Faulty variant of Decrement: one unit is taken whatever the quantity.
DecrementByOne(stock, quant) == stock - 1

\* Line 64: product.prd_current_stock -= item_data.ord_it_quant
Decrement(stock, quant) == stock - quant

\* The OrderItem row: the unit price is copied from the product.
NewOrderItem(ord_id, item, product) ==
    [ord_id |-> ord_id, ord_prd_id |-> item.ord_prd_id,
     ord_it_quant |-> item.ord_it_quant, ord_it_price |-> product.prd_price]

\* db.commit(): the header, the items and the new stock of every product the
\* session changed are written together.  The ORM writes the attribute value
\* it holds (UPDATE products SET prd_current_stock = <value>).
commit(se) ==
    [products |->
        [p \in DOMAIN products |->
            IF p \in DOMAIN se.identity
            THEN [products[p] EXCEPT
                    !.prd_current_stock = se.identity[p].prd_current_stock]
            ELSE products[p]],
     orders |->
        [o \in DOMAIN orders \cup {se.ord_id} |->
            IF o = se.ord_id
            THEN OrderHeader(se.req.usr, se.req.ord_status)
            ELSE orders[o]],
     orders_items |-> orders_items \o se.new_items]

\* Faulty variant of rollback: what the session had written so far is kept.
rollback_keeps_writes(se) == commit(se)

\* db.rollback(): nothing the session wrote reaches the committed tables.
rollback(se) == Tables

SetTables(t) ==
    /\ products' = t.products
    /\ orders' = t.orders
    /\ orders_items' = t.orders_items

\* Faulty variant of EmptyOrder: the check of line 18 is missing.
EmptyOrderUnchecked(its) == FALSE

\* Line 18: not order_data.items
EmptyOrder(its) == its = <<>>

\* Lines 18-33: the empty-items check, then the header is added and flushed.
CreateOrderBegin(s, u, st, its) ==
    /\ sess[s].pc = "idle"
    /\ calls' = calls + 1
    /\ pre' = [pre EXCEPT ![s] = Tables]
    /\ LET r == [NoReq EXCEPT !.op = "create_order", !.usr = u,
                              !.ord_status = st, !.items = its]
       IN IF EmptyOrder(its)
          THEN /\ sess' = [sess EXCEPT ![s] =
                    [IdleSession EXCEPT !.pc = "done", !.req = r,
                                        !.resp = Resp(422, 0)]]
               /\ UNCHANGED ord_id_seq
          ELSE /\ sess' = [sess EXCEPT ![s] =
                    [IdleSession EXCEPT !.pc = "loop", !.req = r,
                                        !.ord_id = ord_id_seq, !.idx = 1]]
               /\ ord_id_seq' = ord_id_seq + 1
    /\ UNCHANGED <<users, products, orders, orders_items, prd_id_seq, ops, authvars>>

\* Faulty variant of NextItem: the items are walked from the last to the first.
NextItemReversed(se) == se.req.items[Len(se.req.items) + 1 - se.idx]

\* Line 35: for item_data in order_data.items
NextItem(se) == se.req.items[se.idx]

\* Lines 35-67, one iteration of the loop; lines 78-80 on an HTTPException.
CreateOrderItem(s) ==
    LET se == sess[s]
    IN /\ se.pc = "loop"
       /\ se.idx <= Len(se.req.items)
       /\ LET item == NextItem(se)
              p == item.ord_prd_id
          IN IF p \notin DOMAIN products
             THEN /\ SetTables(rollback(se))
                  /\ sess' = [sess EXCEPT ![s] =
                        [se EXCEPT !.pc = "done", !.resp = Resp(404, p)]]
             ELSE LET product == QueryProduct(se, p)
                  IN IF InsufficientStock(product.prd_current_stock, item.ord_it_quant)
                     THEN /\ SetTables(rollback(se))
                          /\ sess' = [sess EXCEPT ![s] =
                                [se EXCEPT !.pc = "done", !.resp = Resp(400, p)]]
                     ELSE /\ sess' = [sess EXCEPT ![s] =
                                [se EXCEPT
                                    !.idx = se.idx + 1,
                                    !.new_items = Append(se.new_items,
                                        NewOrderItem(se.ord_id, item, product)),
                                    !.identity =
                                        [q \in DOMAIN se.identity \cup {p} |->
                                            IF q = p
                                            THEN [product EXCEPT !.prd_current_stock =
                                                    Decrement(product.prd_current_stock,
                                                              item.ord_it_quant)]
                                            ELSE se.identity[q]]]]
                          /\ UNCHANGED <<products, orders, orders_items>>
       /\ UNCHANGED <<users, ord_id_seq, prd_id_seq, pre, calls, ops, authvars>>

\* Line 69.  The flush fails when a product an item references has been deleted
\* meanwhile (foreign key orders_items.ord_prd_id); lines 81-86 then roll back.
CreateOrderCommit(s) ==
    LET se == sess[s]
    IN /\ se.pc = "loop"
       /\ se.idx > Len(se.req.items)
       /\ IF \E i \in 1 .. Len(se.new_items) :
                se.new_items[i].ord_prd_id \notin DOMAIN products
          THEN /\ SetTables(rollback(se))
               /\ sess' = [sess EXCEPT ![s] =
                    [se EXCEPT !.pc = "done", !.resp = Resp(500, 0)]]
          ELSE /\ SetTables(commit(se))
               /\ sess' = [sess EXCEPT ![s] = [se EXCEPT !.pc = "refresh"]]
       /\ UNCHANGED <<users, ord_id_seq, prd_id_seq, pre, calls, ops, authvars>>

\* Lines 70-76 after the commit: db.refresh(db_order) raises when the row is no
\* longer there, and lines 81-86 turn that into a 500 (the rollback finds
\* nothing left to undo).
CreateOrderRefresh(s) ==
    LET se == sess[s]
    IN /\ se.pc = "refresh"
       /\ sess' = [sess EXCEPT ![s] =
            [se EXCEPT !.pc = "done",
                       !.resp = IF se.ord_id \in DOMAIN orders
                                THEN Resp(201, 0) ELSE Resp(500, 0)]]
       /\ UNCHANGED <<users, products, orders, orders_items, ord_id_seq,
                      prd_id_seq, pre, calls, ops, authvars>>

\* The response is sent and the request's session is closed.
Close(s) ==
    /\ sess[s].pc = "done"
    /\ sess' = [sess EXCEPT ![s] = IdleSession]
    /\ pre' = [pre EXCEPT ![s] = NoTables]
    /\ UNCHANGED <<users, products, orders, orders_items, ord_id_seq,
                   prd_id_seq, calls, ops, authvars>>

\* ------------------------------------------------ the other order services

\* One-statement requests: the session runs the whole handler and answers.
Answer(s, r, code) ==
    sess' = [sess EXCEPT ![s] =
        [IdleSession EXCEPT !.pc = "done", !.req = r, !.resp = Resp(code, 0)]]

BeginOp(s) ==
    /\ sess[s].pc = "idle"
    /\ ops' = ops + 1
    /\ pre' = [pre EXCEPT ![s] = Tables]
    /\ UNCHANGED authvars

\* Faulty variant of CascadeDeleteOrder: the items of the order are left behind.
DeleteOrderNoCascade(id) ==
    [products |-> products,
     orders |-> [o \in DOMAIN orders \ {id} |-> orders[o]],
     orders_items |-> orders_items]

\* db.delete(db_order): the relationship Order.items cascades the delete.
CascadeDeleteOrder(id) ==
    [products |-> products,
     orders |-> [o \in DOMAIN orders \ {id} |-> orders[o]],
     orders_items |-> SelectSeq(orders_items, LAMBDA it : it.ord_id # id)]

\* delete_order_service behind DELETE /orders/{id}.
DeleteOrder(s, u, id) ==
    /\ BeginOp(s)
    /\ LET r == [NoReq EXCEPT !.op = "delete_order", !.usr = u, !.id = id]
       IN IF ~users[u].usr_isadmin
          THEN Answer(s, r, 403) /\ UNCHANGED <<products, orders, orders_items>>
          ELSE IF id \notin DOMAIN orders
          THEN Answer(s, r, 404) /\ UNCHANGED <<products, orders, orders_items>>
          ELSE Answer(s, r, 204) /\ SetTables(CascadeDeleteOrder(id))
    /\ UNCHANGED <<users, ord_id_seq, prd_id_seq, calls>>

\* Faulty variant of UpdateOrderStatus: the admin test of lines 115-119 is missing.
UpdateOrderStatusUngated(s, u, id, st) ==
    /\ BeginOp(s)
    /\ Answer(s, [NoReq EXCEPT !.op = "update_order_status", !.usr = u, !.id = id,
                               !.ord_status = st], 500)
    /\ UNCHANGED <<users, products, orders, orders_items, ord_id_seq, prd_id_seq, calls>>

\* update_order_status_service behind PUT /orders/{id}.  The row is turned into
\* an OrderOut before the None test: model_validate(None) raises, and for a row
\* that exists db.add() is handed the OrderOut, which is no mapped instance and
\* raises as well.  The router answers either with its 500.
UpdateOrderStatus(s, u, id, st) ==
    /\ BeginOp(s)
    /\ LET r == [NoReq EXCEPT !.op = "update_order_status", !.usr = u, !.id = id,
                              !.ord_status = st]
       IN IF ~users[u].usr_isadmin
          THEN Answer(s, r, 403)
          ELSE Answer(s, r, 500)
    /\ UNCHANGED <<users, products, orders, orders_items, ord_id_seq, prd_id_seq, calls>>

\* ------------------------------------------------------- product services

\* for key, value in update_data.items(): setattr(db_product, key, value)
ApplyUpdate(row, data) ==
    [f \in DOMAIN row |-> IF f \in DOMAIN data THEN data[f] ELSE row[f]]

UpdateInputs ==
    [prd_price : PriceValues] \cup [prd_current_stock : {-1, MaxStock}]

CreateInputs == [prd_price : {2550}, prd_current_stock : {-1, MaxStock}]

\* Faulty variant of UpdatedTables: a new price is also written into the items that
\* were sold of the product.
UpdatedTablesRepricing(id, data) ==
    [products |-> [products EXCEPT ![id] = ApplyUpdate(products[id], data)],
     orders |-> orders,
     orders_items |->
        [i \in 1 .. Len(orders_items) |->
            IF orders_items[i].ord_prd_id = id /\ "prd_price" \in DOMAIN data
            THEN [orders_items[i] EXCEPT !.ord_it_price = data.prd_price]
            ELSE orders_items[i]]]

\* Lines 89-93: the product row alone is written.
UpdatedTables(id, data) ==
    [products |-> [products EXCEPT ![id] = ApplyUpdate(products[id], data)],
     orders |-> orders,
     orders_items |-> orders_items]

\* update_product_service behind PUT /products/{id}.
UpdateProduct(s, u, id, data) ==
    /\ BeginOp(s)
    /\ LET r == [NoReq EXCEPT !.op = "update_product", !.usr = u, !.id = id,
                              !.data = data]
       IN IF ~users[u].usr_isadmin
          THEN Answer(s, r, 403) /\ UNCHANGED <<products, orders, orders_items>>
          ELSE IF id \notin DOMAIN products
          THEN Answer(s, r, 404) /\ UNCHANGED <<products, orders, orders_items>>
          ELSE Answer(s, r, 200) /\ SetTables(UpdatedTables(id, data))
    /\ UNCHANGED <<users, ord_id_seq, prd_id_seq, calls>>

\* create_product_service behind POST /products/.
CreateProduct(s, u, data) ==
    /\ BeginOp(s)
    /\ prd_id_seq \in ProductIds
    /\ LET r == [NoReq EXCEPT !.op = "create_product", !.usr = u, !.data = data]
       IN IF ~users[u].usr_isadmin
          THEN Answer(s, r, 403) /\ UNCHANGED <<products, prd_id_seq>>
          ELSE /\ Answer(s, r, 201)
               /\ products' = [p \in DOMAIN products \cup {prd_id_seq} |->
                                IF p = prd_id_seq THEN data ELSE products[p]]
               /\ prd_id_seq' = prd_id_seq + 1
    /\ UNCHANGED <<users, orders, orders_items, ord_id_seq, calls>>

\* Faulty variant of DeleteProduct: the rows that reference the product do not
\* stop the delete.
DeleteProductUnchecked(s, u, id) ==
    /\ BeginOp(s)
    /\ LET r == [NoReq EXCEPT !.op = "delete_product", !.usr = u, !.id = id]
       IN IF ~users[u].usr_isadmin
          THEN Answer(s, r, 403) /\ UNCHANGED products
          ELSE IF id \notin DOMAIN products
          THEN Answer(s, r, 404) /\ UNCHANGED products
          ELSE /\ Answer(s, r, 204)
               /\ products' = [p \in DOMAIN products \ {id} |-> products[p]]
    /\ UNCHANGED <<users, orders, orders_items, ord_id_seq, prd_id_seq, calls>>

\* delete_product_service behind DELETE /products/{id}.  Product.order_items has
\* no delete cascade: the flush would null orders_items.ord_prd_id, which is
\* NOT NULL, so deleting a product that items reference raises (500).
DeleteProduct(s, u, id) ==
    /\ BeginOp(s)
    /\ LET r == [NoReq EXCEPT !.op = "delete_product", !.usr = u, !.id = id]
       IN IF ~users[u].usr_isadmin
          THEN Answer(s, r, 403) /\ UNCHANGED products
          ELSE IF id \notin DOMAIN products
          THEN Answer(s, r, 404) /\ UNCHANGED products
          ELSE IF \E i \in 1 .. Len(orders_items) : orders_items[i].ord_prd_id = id
          THEN Answer(s, r, 500) /\ UNCHANGED products
          ELSE /\ Answer(s, r, 204)
               /\ products' = [p \in DOMAIN products \ {id} |-> products[p]]
    /\ UNCHANGED <<users, orders, orders_items, ord_id_seq, prd_id_seq, calls>>

\* ------------------------------------------------------------ utils/jwt.py
AccessMinutes == 30
RefreshMinutes == 10080

SECRET_KEY_AUTH == "SECRET_KEY_AUTH"

UserIds == 1 .. 5

\* str() of a user id.
str(i) == <<"1", "2", "3", "4", "5">>[i]

\* int() of a subject string raises ValueError unless it is a number.
IsNumeric(sub) == \E i \in UserIds : str(i) = sub

int(sub) == CHOOSE i \in UserIds : str(i) = sub

\* A token string is modelled by what can be read off it: whether it is a JWT
\* at all, its payload (sub, exp) and the key that signed it.  NoToken is "".
NoToken == [raw |-> "", sub |-> "", exp |-> 0, key |-> ""]

\* Faulty variant of create_access_token: every token lives as long as an access
\* token.
create_access_token_short(sub, expire_minutes, t) ==
    [raw |-> "jwt", sub |-> str(sub), exp |-> t + AccessMinutes,
     key |-> SECRET_KEY_AUTH]

\* create_access_token at clock time t: sub is stringified, exp is t plus the ttl.
create_access_token(sub, expire_minutes, t) ==
    [raw |-> "jwt", sub |-> str(sub), exp |-> t + expire_minutes,
     key |-> SECRET_KEY_AUTH]

Failure(code, detail) == [code |-> code, detail |-> detail, sub |-> "", usr |-> 0]

\* Faulty variant of decode_token_str: the expiry is not looked at.
decode_token_str_lenient(token, t) ==
    IF token.raw # "jwt" \/ token.key # SECRET_KEY_AUTH
    THEN Failure(401, "Could not validate credentials")
    ELSE [code |-> 200, detail |-> "", sub |-> token.sub, usr |-> 0]

\* decode_token_str at clock time t: the signature is verified before the claims;
\* each of the two failures is raised as an HTTPException with its own detail.
decode_token_str(token, t) ==
    IF token.raw # "jwt" \/ token.key # SECRET_KEY_AUTH
    THEN Failure(401, "Could not validate credentials")
    ELSE IF token.exp <= t
    THEN Failure(401, "Token has expired")
    ELSE [code |-> 200, detail |-> "", sub |-> token.sub, usr |-> 0]

\* Faulty variant of get_current_user: the subject is not looked up in the users
\* table; an unknown subject is taken for the first user.
get_current_user_unchecked(token, t) ==
    LET d == decode_token_str(token, t)
    IN IF d.code # 200 THEN d
       ELSE [d EXCEPT !.usr = IF int(d.sub) \in DOMAIN users THEN int(d.sub)
                                ELSE CHOOSE u \in DOMAIN users :
                                        \A v \in DOMAIN users : u <= v]

\* get_current_user: the dependency that resolves the bearer token to a user row.
get_current_user(token, t) ==
    LET d == decode_token_str(token, t)
    IN IF d.code # 200 THEN d
       ELSE IF d.sub = ""
       THEN Failure(401, "Invalid authentication token: subject missing")
       ELSE IF ~IsNumeric(d.sub)
       THEN Failure(401, "Invalid authentication token: subject is not a valid ID")
       ELSE IF int(d.sub) \notin DOMAIN users
       THEN Failure(401, "User not found")
       ELSE [d EXCEPT !.usr = int(d.sub)]

\* -------------------------------------------------------- services/auth.py
Emails == {"admin@x.com", "user@x.com", "new@x.com"}
Passwords == {"pw1", "pw2"}

get_password_hash(password) == <<"hash", password>>

verify_password(password, hashed) == hashed = get_password_hash(password)

\* db.query(User).filter(User.usr_email == email).first(); 0 stands for None.
UserByEmail(email) ==
    LET found == {u \in DOMAIN users : users[u].usr_email = email}
    IN IF found = {} THEN 0
       ELSE CHOOSE u \in found : \A v \in found : u <= v

NoBody == [f \in {} |-> NoToken]

AuthResp(code, detail, body) ==
    [code |-> code, prd |-> 0, detail |-> detail, body |-> body]

AuthReq(op, email, password, token) ==
    [op |-> op, usr |-> 0, ord_status |-> "", items |-> <<>>, id |-> 0,
     data |-> NoData, email |-> email, password |-> password, token |-> token,
     at |-> now]

\* login_service behind POST /auth/login, at clock time t.
login_service(username, password, t) ==
    LET user == UserByEmail(username)
    IN IF user = 0 \/ ~verify_password(password, users[user].usr_password)
       THEN AuthResp(401, "Invalid username or password", NoBody)
       ELSE AuthResp(200, "",
                [access_token |-> create_access_token(user, AccessMinutes, t),
                 refresh_token |-> create_access_token(user, RefreshMinutes, t),
                 token_type |-> "bearer"])

\* Faulty variant of EmailTaken: the lookup of line 44 finds nothing.
EmailNeverTaken(email) == FALSE

\* Lines 44-46 of register_service.
EmailTaken(email) == UserByEmail(email) # 0

\* Faulty variant of NewUser: the new user is an admin.
NewUserAdmin(email, password) ==
    [usr_isadmin |-> TRUE, usr_email |-> email,
     usr_password |-> get_password_hash(password)]

\* Lines 49-54: the row register_service adds; never an admin.
NewUser(email, password) ==
    [usr_isadmin |-> FALSE, usr_email |-> email,
     usr_password |-> get_password_hash(password)]

\* Faulty variant of MissingToken: the test of line 70 is skipped.
MissingTokenUnchecked(token) == FALSE

\* Line 70: not refresh_token_str.
MissingToken(token) == token.raw = ""

\* Faulty variant of RefreshedTokens: the refresh token is rotated as well.
RefreshedTokensRotating(user, t) ==
    [access_token |-> create_access_token(user, AccessMinutes, t),
     refresh_token |-> create_access_token(user, RefreshMinutes, t),
     token_type |-> "bearer"]

\* Lines 106-108: TokenRefreshOut holds a new access token and nothing else.
RefreshedTokens(user, t) ==
    [access_token |-> create_access_token(user, AccessMinutes, t),
     token_type |-> "bearer"]

\* Faulty variant of refresh_service: a token that lives no longer than an access
\* token is refused.
refresh_service_long_lived_only(token, t) ==
    LET d == decode_token_str(token, t)
    IN IF MissingToken(token)
       THEN AuthResp(401, "Refresh token not provided", NoBody)
       ELSE IF d.code # 200 THEN AuthResp(d.code, d.detail, NoBody)
       ELSE IF token.exp <= t + AccessMinutes \/ int(d.sub) \notin DOMAIN users
       THEN AuthResp(401, "User associated with token not found", NoBody)
       ELSE AuthResp(200, "", RefreshedTokens(int(d.sub), t))

\* refresh_service behind POST /auth/refresh, at clock time t.  The router maps
\* MissingTokenError; the HTTPExceptions of decode_token_str and of the service
\* pass through it as they are.
refresh_service(token, t) ==
    IF MissingToken(token)
    THEN AuthResp(401, "Refresh token not provided", NoBody)
    ELSE LET d == decode_token_str(token, t)
         IN IF d.code # 200 THEN AuthResp(d.code, d.detail, NoBody)
            ELSE IF d.sub = ""
            THEN AuthResp(401, "Invalid token payload: Missing user identifier", NoBody)
            ELSE IF ~IsNumeric(d.sub)
            THEN AuthResp(401, "Invalid token payload: User identifier format incorrect",
                          NoBody)
            ELSE IF int(d.sub) \notin DOMAIN users
            THEN AuthResp(401, "User associated with token not found", NoBody)
            ELSE AuthResp(200, "", RefreshedTokens(int(d.sub), t))

\* The tokens a response body carries.
TokensOf(body) ==
    {body[f] : f \in DOMAIN body \cap {"access_token", "refresh_token"}}

\* What a client can send as a token: one the server signed, the empty string,
\* a string that is no JWT, or a JWT signed with another key.
Garbage == [raw |-> "garbage", sub |-> "", exp |-> 0, key |-> ""]

WrongKey == [raw |-> "jwt", sub |-> "1", exp |-> RefreshMinutes, key |-> "other"]

Presented == issued \cup {NoToken, Garbage, WrongKey}

AuthBegin(s) ==
    /\ sess[s].pc = "idle"
    /\ ops' = ops + 1
    /\ pre' = [pre EXCEPT ![s] = Tables]
    /\ UNCHANGED <<products, orders, orders_items, ord_id_seq, prd_id_seq, calls, now,
                   clients, cli_id_seq>>

AuthAnswer(s, r, resp) ==
    sess' = [sess EXCEPT ![s] =
        [IdleSession EXCEPT !.pc = "done", !.req = r, !.resp = resp]]

\* POST /auth/login.
Login(s, username, password) ==
    LET resp == login_service(username, password, now)
    IN /\ AuthBegin(s)
       /\ AuthAnswer(s, AuthReq("login", username, password, NoToken), resp)
       /\ issued' = issued \cup TokensOf(resp.body)
       /\ UNCHANGED <<users, usr_id_seq>>

\* POST /auth/register, lines 44-46 of register_service: the lookup, and the
\* router's 400 when the email is held.
RegisterBegin(s, email, password) ==
    /\ AuthBegin(s)
    /\ IF EmailTaken(email)
       THEN AuthAnswer(s, AuthReq("register", email, password, NoToken),
                       AuthResp(400, "Email already registered", NoBody))
       ELSE sess' = [sess EXCEPT ![s] =
                [IdleSession EXCEPT !.pc = "insert",
                                    !.req = AuthReq("register", email, password, NoToken)]]
    /\ UNCHANGED <<users, usr_id_seq, issued>>

\* Faulty variant of UniqueViolation: the column accepts a second row with the
\* same email.
UniqueNeverViolated(email) == FALSE

\* users.usr_email is unique: the INSERT of a row whose email another committed
\* row holds raises IntegrityError.
UniqueViolation(email) == \E u \in DOMAIN users : users[u].usr_email = email

\* Lines 56-62 of register_service: db.add, db.commit, db.refresh.  The router
\* does not catch the IntegrityError, which ends in a 500.
RegisterCommit(s) ==
    LET se == sess[s]
    IN /\ se.pc = "insert"
       /\ IF UniqueViolation(se.req.email)
          THEN /\ sess' = [sess EXCEPT ![s] =
                    [se EXCEPT !.pc = "done",
                               !.resp = AuthResp(500, "Internal Server Error", NoBody)]]
               /\ UNCHANGED <<users, usr_id_seq>>
          ELSE /\ usr_id_seq \in UserIds
               /\ users' = [u \in DOMAIN users \cup {usr_id_seq} |->
                               IF u = usr_id_seq
                               THEN NewUser(se.req.email, se.req.password)
                               ELSE users[u]]
               /\ usr_id_seq' = usr_id_seq + 1
               /\ sess' = [sess EXCEPT ![s] =
                    [se EXCEPT !.pc = "done",
                               !.resp = AuthResp(200, "", [usr_id |-> usr_id_seq])]]
       /\ UNCHANGED <<products, orders, orders_items, ord_id_seq, prd_id_seq, pre,
                      calls, ops, now, issued, clients, cli_id_seq>>

\* POST /auth/refresh.
Refresh(s, token) ==
    LET resp == refresh_service(token, now)
    IN /\ AuthBegin(s)
       /\ AuthAnswer(s, AuthReq("refresh", "", "", token), resp)
       /\ issued' = issued \cup TokensOf(resp.body)
       /\ UNCHANGED <<users, usr_id_seq>>

\* POST /products/ with a bearer token: the handler runs only with the user
\* row get_current_user returns.
GuardedCreateProduct(s, token, data) ==
    LET g == get_current_user(token, now)
    IN IF g.code = 200
       THEN CreateProduct(s, g.usr, data)
       ELSE /\ AuthBegin(s)
            /\ AuthAnswer(s, AuthReq("create_product", "", "", token),
                          AuthResp(g.code, g.detail, NoBody))
            /\ UNCHANGED <<users, usr_id_seq, issued>>

\* The clock readings the model distinguishes.
Times ==
    {0, AccessMinutes - 1, AccessMinutes, RefreshMinutes,
     RefreshMinutes + AccessMinutes}

\* Time passes between requests.
Tick ==
    /\ \E t \in Times : t > now /\ now' = t
    /\ UNCHANGED <<users, products, orders, orders_items, ord_id_seq, prd_id_seq,
                   sess, pre, calls, ops, usr_id_seq, issued, clients, cli_id_seq>>

\* ----------------------------------------------------- services/clients.py
ClientEmails == {"a@c.com", "b@c.com"}
Cpfs == {"11111111111", "22222222222"}

ClientInputs == [cli_email : ClientEmails, cli_cpf : Cpfs]

\* ClientUpdate with exclude_unset: any subset of the two fields.
ClientUpdates ==
    [cli_email : ClientEmails] \cup [cli_cpf : Cpfs] \cup ClientInputs

\* db.query(Client).filter(Client.<field> == value).first(); 0 stands for None.
ClientBy(field, value) ==
    LET found == {c \in DOMAIN clients : clients[c][field] = value}
    IN IF found = {} THEN 0
       ELSE CHOOSE c \in found : \A d \in found : c <= d

ClientBegin(s) ==
    /\ sess[s].pc = "idle"
    /\ ops' = ops + 1
    /\ pre' = [pre EXCEPT ![s] = Tables]
    /\ UNCHANGED <<users, products, orders, orders_items, ord_id_seq, prd_id_seq,
                   calls, usr_id_seq, now, issued>>

\* create_client_service behind POST /clients/.
CreateClient(s, u, data) ==
    /\ ClientBegin(s)
    /\ LET r == [NoReq EXCEPT !.op = "create_client", !.usr = u, !.data = data]
       IN IF ~users[u].usr_isadmin
          THEN Answer(s, r, 403) /\ UNCHANGED <<clients, cli_id_seq>>
          ELSE IF ClientBy("cli_email", data.cli_email) # 0
                    \/ ClientBy("cli_cpf", data.cli_cpf) # 0
          THEN Answer(s, r, 400) /\ UNCHANGED <<clients, cli_id_seq>>
          ELSE /\ Answer(s, r, 200)
               /\ clients' = [c \in DOMAIN clients \cup {cli_id_seq} |->
                                IF c = cli_id_seq THEN data ELSE clients[c]]
               /\ cli_id_seq' = cli_id_seq + 1

\* Lines 73-83 and 85-93 of update_client_service for one field: 0 lets the
\* update go on.  The row found is turned into a ClientOut before it is tested,
\* and model_validate(None) raises, so a value nobody holds ends in the
\* router's 500.
DuplicateCheck(id, data, field) ==
    IF field \in DOMAIN data /\ data[field] # clients[id][field]
    THEN LET existing == ClientBy(field, data[field])
         IN IF existing = 0 THEN 500
            ELSE IF existing # id THEN 400 ELSE 0
    ELSE 0

\* update_client_service behind PUT /clients/{id}.
UpdateClient(s, u, id, data) ==
    /\ ClientBegin(s)
    /\ LET r == [NoReq EXCEPT !.op = "update_client", !.usr = u, !.id = id,
                              !.data = data]
       IN IF ~users[u].usr_isadmin
          THEN Answer(s, r, 403) /\ UNCHANGED clients
          ELSE IF id \notin DOMAIN clients
          THEN Answer(s, r, 404) /\ UNCHANGED clients
          ELSE IF DuplicateCheck(id, data, "cli_email") # 0
          THEN Answer(s, r, DuplicateCheck(id, data, "cli_email")) /\ UNCHANGED clients
          ELSE IF DuplicateCheck(id, data, "cli_cpf") # 0
          THEN Answer(s, r, DuplicateCheck(id, data, "cli_cpf")) /\ UNCHANGED clients
          ELSE /\ Answer(s, r, 200)
               /\ clients' = [clients EXCEPT ![id] = ApplyUpdate(clients[id], data)]
    /\ UNCHANGED cli_id_seq

\* delete_client_service behind DELETE /clients/{id}.
DeleteClient(s, u, id) ==
    /\ ClientBegin(s)
    /\ LET r == [NoReq EXCEPT !.op = "delete_client", !.usr = u, !.id = id]
       IN IF ~users[u].usr_isadmin
          THEN Answer(s, r, 403) /\ UNCHANGED clients
          ELSE IF id \notin DOMAIN clients
          THEN Answer(s, r, 404) /\ UNCHANGED clients
          ELSE /\ Answer(s, r, 204)
               /\ clients' = [c \in DOMAIN clients \ {id} |-> clients[c]]
    /\ UNCHANGED cli_id_seq

\* ------------------------------------------------------------------ system
InitialProducts ==
    {[p \in ids |-> [prd_price |-> IF p = 1 THEN 1000 ELSE 2550,
                     prd_current_stock |-> st[p]]] :
        ids \in {{1}, {1, 2}}, st \in [ProductIds -> 0 .. MaxStock]}

Init ==
    /\ users = [u \in {1, 2} |->
                    [usr_isadmin |-> (u = 1),
                     usr_email |-> IF u = 1 THEN "admin@x.com" ELSE "user@x.com",
                     usr_password |-> get_password_hash(IF u = 1 THEN "pw1" ELSE "pw2")]]
    \* User 3 logged in at time 0 and its row has since been removed from the
    \* table by hand; the sequence does not hand its id out again.
    /\ usr_id_seq = 4
    /\ now = 0
    /\ clients = NoIdentity
    /\ cli_id_seq = 1
    /\ issued = {create_access_token(3, RefreshMinutes, 0)}
    /\ products \in InitialProducts
    /\ prd_id_seq = Cardinality(DOMAIN products) + 1
    /\ orders = NoIdentity
    /\ orders_items = <<>>
    /\ ord_id_seq = 1
    /\ sess = [s \in Sessions |-> IdleSession]
    /\ pre = [s \in Sessions |-> NoTables]
    /\ calls = 0
    /\ ops = 0

NewOrder(s) ==
    \E h \in HeaderInputs, its \in ItemLists : CreateOrderBegin(s, h[1], h[2], its)

OrderOps(s) ==
    \/ \E u \in DOMAIN users, id \in 1 .. MaxCalls : DeleteOrder(s, u, id)
    \/ \E u \in DOMAIN users, id \in 1 .. MaxCalls : UpdateOrderStatus(s, u, id, "PAID")

ProductOps(s) ==
    \/ \E u \in DOMAIN users, id \in ProductIds, data \in UpdateInputs :
            UpdateProduct(s, u, id, data)
    \/ \E u \in DOMAIN users, data \in CreateInputs : CreateProduct(s, u, data)
    \/ \E u \in DOMAIN users, id \in ProductIds : DeleteProduct(s, u, id)

\* A request in progress takes its next step.
Progress(s) ==
    \/ CreateOrderItem(s)
    \/ CreateOrderCommit(s)
    \/ CreateOrderRefresh(s)
    \/ Close(s)

\* One client: its requests run one after the other.
Next ==
    \/ calls < MaxCalls /\ NewOrder("s1")
    \/ ops < MaxOps /\ (OrderOps("s1") \/ ProductOps("s1"))
    \/ Progress("s1")

Spec == Init /\ [][Next]_vars

\* Two clients, one request each, interleaved statement by statement.
NextConc ==
    \E s \in Sessions :
        \/ calls + ops < Cardinality(Sessions)
            /\ (NewOrder(s) \/ OrderOps(s) \/ ProductOps(s))
        \/ Progress(s)

SpecConc == Init /\ [][NextConc]_vars

\* OrderBase: ord_status is "PENDING" when the body does not carry the field.
\* supplied is <<>> or the one-element sequence of the status sent.
OrderBase(supplied) == IF supplied = <<>> THEN "PENDING" ELSE supplied[1]

StatusInputs == {<<>>, <<"">>, <<"PAID">>}

\* POST /orders/ by any user, with or without a status, for at most one item.
NewOrderAs(s) ==
    \E u \in DOMAIN users, supplied \in StatusInputs,
       its \in {l \in ItemLists : Len(l) <= 1} :
        CreateOrderBegin(s, u, OrderBase(supplied), its)

\* One client that only creates orders.
NextOrders ==
    \/ calls < MaxCalls /\ NewOrderAs("s1")
    \/ Progress("s1")

SpecOrders == Init /\ [][NextOrders]_vars

ClientIds == 1 .. 2

ClientOps(s) ==
    \/ \E u \in DOMAIN users, data \in ClientInputs : CreateClient(s, u, data)
    \/ \E u \in DOMAIN users, id \in ClientIds, data \in ClientUpdates :
            UpdateClient(s, u, id, data)
    \/ \E u \in DOMAIN users, id \in ClientIds : DeleteClient(s, u, id)

\* One client of the client endpoints.
NextClients ==
    \/ ops < MaxRequests /\ ClientOps("s1")
    \/ Close("s1")

SpecClients == Init /\ [][NextClients]_vars

AuthOps(s) ==
    \/ \E e \in Emails, pw \in Passwords : Login(s, e, pw)
    \/ \E e \in Emails : RegisterBegin(s, e, "pw1")
    \/ \E token \in Presented : Refresh(s, token)
    \/ \E token \in Presented, data \in CreateInputs :
            GuardedCreateProduct(s, token, data)

\* One client of the auth endpoints and of a guarded endpoint, while time passes.
NextAuth ==
    \/ ops < MaxRequests /\ AuthOps("s1")
    \/ RegisterCommit("s1")
    \/ Close("s1")
    \/ Tick

SpecAuth == Init /\ [][NextAuth]_vars

\* Two clients that register, interleaved statement by statement.
NextRegister ==
    \E s \in Sessions :
        \/ ops < MaxRequests /\ \E e \in Emails : RegisterBegin(s, e, "pw1")
        \/ RegisterCommit(s)
        \/ Close(s)

SpecRegister == Init /\ [][NextRegister]_vars

\* ------------------------------------------------------------------ claims

CallDone(s, op) == sess[s].pc = "done" /\ sess[s].req.op = op

RECURSIVE TotalQuantity(_, _)
\* The sum of the quantities the items ask of product p.
TotalQuantity(items, p) ==
    IF items = <<>> THEN 0
    ELSE (IF Head(items).ord_prd_id = p THEN Head(items).ord_it_quant ELSE 0)
            + TotalQuantity(Tail(items), p)

\* The request of s is a single item asking for all the stock product p had
\* when the request began.
FullStockOrder(s, p) ==
    /\ sess[s].req.op = "create_order"
    /\ Len(sess[s].req.items) = 1
    /\ sess[s].req.items[1].ord_prd_id = p
    /\ p \in DOMAIN pre[s].products
    /\ sess[s].req.items[1].ord_it_quant = pre[s].products[p].prd_current_stock

\* C1: when two create-order calls that overlap each ask for the full remaining
\* stock of the same product, exactly one is answered 201 and the other 400
\* (insufficient stock); never both 201.
C1_ExactlyOneSucceeds ==
    \A p \in ProductIds :
        (/\ sess["s1"].pc = "done" /\ FullStockOrder("s1", p)
         /\ sess["s2"].pc = "done" /\ FullStockOrder("s2", p))
        => {sess["s1"].resp.code, sess["s2"].resp.code} = {201, 400}

\* C2: while only create-order calls have run, in any interleaving, no product's
\* committed stock is negative.
C2_StockNeverNegative ==
    ops = 0 => \A p \in DOMAIN products : products[p].prd_current_stock >= 0

\* Two overlapping orders are both committed and a product is sold out.
C2_Witness ==
    /\ ops = 0
    /\ Cardinality(DOMAIN orders) = 2
    /\ \A s \in Sessions : sess[s].pc \in {"refresh", "done"}
    /\ \E p \in DOMAIN products : products[p].prd_current_stock = 0

\* Some item of the request of s asks for more than the product's stock was
\* when the request began.
ExceedsStock(s) ==
    \E i \in 1 .. Len(sess[s].req.items) :
        LET it == sess[s].req.items[i]
        IN /\ it.ord_prd_id \in DOMAIN pre[s].products
           /\ it.ord_it_quant > pre[s].products[it.ord_prd_id].prd_current_stock

\* C3 as stated: a create-order call in which some item asks for more than the
\* product's stock is answered 400 and leaves the tables as they were.
C3_Original ==
    \A s \in Sessions :
        (CallDone(s, "create_order") /\ ExceedsStock(s))
        => /\ sess[s].resp.code = 400
           /\ Tables = pre[s]

\* C3 amended: such a call fails with the error of its first offending item,
\* 400 (insufficient stock) or 404 when that item names a product that does not
\* exist, and it is 400 when every product exists; the tables are as they were.
C3_FailsWithoutEffect ==
    \A s \in Sessions :
        (CallDone(s, "create_order") /\ ExceedsStock(s))
        => /\ sess[s].resp.code \in {400, 404}
           /\ sess[s].resp.code = 404 =>
                /\ sess[s].resp.prd \notin DOMAIN pre[s].products
                /\ \E i \in 1 .. Len(sess[s].req.items) :
                        sess[s].req.items[i].ord_prd_id = sess[s].resp.prd
           /\ (\A i \in 1 .. Len(sess[s].req.items) :
                    sess[s].req.items[i].ord_prd_id \in DOMAIN pre[s].products)
                => sess[s].resp.code = 400
           /\ Tables = pre[s]

\* The first item was accepted and the second, of another product, asks for
\* more than there is.
C3_Witness ==
    \E s \in Sessions :
        /\ CallDone(s, "create_order") /\ ExceedsStock(s)
        /\ Len(sess[s].req.items) = 2
        /\ sess[s].req.items[1].ord_prd_id # sess[s].req.items[2].ord_prd_id
        /\ sess[s].resp = Resp(400, sess[s].req.items[2].ord_prd_id)
        /\ pre[s].products[sess[s].req.items[1].ord_prd_id].prd_current_stock
                >= sess[s].req.items[1].ord_it_quant

\* No other client has written to the products while the request of s ran.
OthersLeaveProducts(s) ==
    \A t \in Sessions \ {s} :
        \/ sess[t].req.op \in {"delete_order", "update_order_status"}
        \/ sess[t].req.op = "none" /\ calls + ops = 1

\* C4: a create-order call that is answered with an error has rolled back all
\* of its writes: its order and items are not in the tables and every product's
\* stock is what it was before the call.
C4_AllOrNothing ==
    \A s \in Sessions :
        (/\ CallDone(s, "create_order")
         /\ sess[s].resp.code # 201
         /\ OthersLeaveProducts(s))
        => /\ products = pre[s].products
           /\ sess[s].ord_id \notin DOMAIN orders
           /\ \A i \in 1 .. Len(orders_items) : orders_items[i].ord_id # sess[s].ord_id

C6_SuccessfulOrderEffect ==
    \A s \in Sessions :
        (CallDone(s, "create_order") /\ sess[s].resp.code = 201)
        => LET its == sess[s].req.items
               o == sess[s].ord_id
               was == pre[s]
               k == Len(was.orders_items)
           IN /\ o \notin DOMAIN was.orders
              /\ DOMAIN orders = DOMAIN was.orders \cup {o}
              /\ \A x \in DOMAIN was.orders : orders[x] = was.orders[x]
              /\ Len(orders_items) = k + Len(its)
              /\ SubSeq(orders_items, 1, k) = was.orders_items
              /\ \A i \in 1 .. Len(its) :
                    orders_items[k + i] =
                        [ord_id |-> o,
                         ord_prd_id |-> its[i].ord_prd_id,
                         ord_it_quant |-> its[i].ord_it_quant,
                         ord_it_price |-> was.products[its[i].ord_prd_id].prd_price]
              /\ DOMAIN products = DOMAIN was.products
              /\ \A p \in DOMAIN products :
                    /\ products[p].prd_price = was.products[p].prd_price
                    /\ products[p].prd_current_stock =
                            was.products[p].prd_current_stock - TotalQuantity(its, p)

\* The order [(1, 2), (2, 1)] with prices 10.00 and 25.50 was created.
C6_Witness ==
    \E s \in Sessions :
        /\ CallDone(s, "create_order") /\ sess[s].resp.code = 201
        /\ sess[s].req.items = <<[ord_prd_id |-> 1, ord_it_quant |-> 2],
                                 [ord_prd_id |-> 2, ord_it_quant |-> 1]>>
        /\ pre[s].products[1].prd_price = 1000
        /\ pre[s].products[2].prd_price = 2550

\* The unit prices of the items of order o, in item order.
PricesOf(items, o) ==
    LET mine == SelectSeq(items, LAMBDA it : it.ord_id = o)
    IN [i \in 1 .. Len(mine) |-> mine[i].ord_it_price]

\* C7: no step changes the unit price of an item of an order that stays.
C7_PriceImmutable ==
    [][\A o \in DOMAIN orders \cap DOMAIN orders' :
            PricesOf(orders_items', o) = PricesOf(orders_items, o)]_vars

\* An item keeps a price the product no longer has.
C7_Witness ==
    \E i \in 1 .. Len(orders_items) :
        /\ orders_items[i].ord_prd_id \in DOMAIN products
        /\ orders_items[i].ord_it_price # products[orders_items[i].ord_prd_id].prd_price

\* Item i cannot be served from tables t once the items before it were served.
Offending(its, i, t) ==
    LET p == its[i].ord_prd_id
    IN \/ p \notin DOMAIN t.products
       \/ its[i].ord_it_quant >
            t.products[p].prd_current_stock - TotalQuantity(SubSeq(its, 1, i - 1), p)

\* C8: a create-order call running alone is answered for its first offending
\* item in the caller's order: 404 naming the product when it does not exist,
\* 400 naming it when the stock left for it is too small; 201 when no item
\* offends.
C8_FirstOffendingItem ==
    \A s \in Sessions :
        (CallDone(s, "create_order") /\ sess[s].req.items # <<>>)
        => LET its == sess[s].req.items
               bad == {i \in 1 .. Len(its) : Offending(its, i, pre[s])}
           IN IF bad = {}
              THEN sess[s].resp.code = 201
              ELSE LET k == CHOOSE i \in bad : \A j \in bad : i <= j
                       p == its[k].ord_prd_id
                   IN sess[s].resp =
                        Resp(IF p \in DOMAIN pre[s].products THEN 400 ELSE 404, p)

\* Both items offend, the first for its stock and the second for a missing
\* product: the answer is the first's.
C8_Witness ==
    \E s \in Sessions :
        /\ CallDone(s, "create_order")
        /\ Len(sess[s].req.items) = 2
        /\ Offending(sess[s].req.items, 1, pre[s])
        /\ sess[s].req.items[1].ord_prd_id \in DOMAIN pre[s].products
        /\ sess[s].req.items[2].ord_prd_id \notin DOMAIN pre[s].products
        /\ sess[s].resp = Resp(400, sess[s].req.items[1].ord_prd_id)

\* C9: every committed order has at least one item.
C9_NoEmptyOrder ==
    \A o \in DOMAIN orders :
        \E i \in 1 .. Len(orders_items) : orders_items[i].ord_id = o

\* An order is still there after another one was deleted.
C9_Witness ==
    /\ DOMAIN orders # {}
    /\ \E s \in Sessions : CallDone(s, "delete_order") /\ sess[s].resp.code = 204

\* C10: delete-order by an admin on an order that exists is answered 204,
\* removes the order and its items, leaves the products (their stock too) and
\* every other order and item as they were.
C10_DeleteOrderEffect ==
    \A s \in Sessions :
        (/\ CallDone(s, "delete_order")
         /\ users[sess[s].req.usr].usr_isadmin
         /\ sess[s].req.id \in DOMAIN pre[s].orders)
        => LET id == sess[s].req.id
               was == pre[s]
           IN /\ sess[s].resp.code = 204
              /\ products = was.products
              /\ orders = [o \in DOMAIN was.orders \ {id} |-> was.orders[o]]
              /\ orders_items = SelectSeq(was.orders_items, LAMBDA it : it.ord_id # id)
              /\ \A i \in 1 .. Len(orders_items) : orders_items[i].ord_id # id

\* One of two orders was deleted; the stock its items took stays taken.
C10_Witness ==
    \E s \in Sessions :
        /\ CallDone(s, "delete_order") /\ sess[s].resp.code = 204
        /\ Cardinality(DOMAIN pre[s].orders) = 2
        /\ Len(orders_items) > 0
        /\ Len(orders_items) < Len(pre[s].orders_items)

\* C11: an order status update by a caller who is no admin is answered 403,
\* whether the order id exists or not, and leaves every order's status (and the
\* rest of the tables) as it was.
C11_NonAdminStatusForbidden ==
    \A s \in Sessions :
        (CallDone(s, "update_order_status") /\ ~users[sess[s].req.usr].usr_isadmin)
        => /\ sess[s].resp.code = 403
           /\ Tables = pre[s]

\* A non-admin was refused the status update of an order that exists.
C11_Witness ==
    \E s \in Sessions :
        /\ CallDone(s, "update_order_status")
        /\ ~users[sess[s].req.usr].usr_isadmin
        /\ sess[s].req.id \in DOMAIN orders
        /\ orders[sess[s].req.id].ord_status # sess[s].req.ord_status
        /\ sess[s].resp.code = 403

\* C12: an order status update by an admin on an order that exists is answered
\* 200, the order's status becomes the string sent, and its owner, its items and
\* every other order stay as they were.
C12_AdminStatusUpdated ==
    \A s \in Sessions :
        (/\ CallDone(s, "update_order_status")
         /\ users[sess[s].req.usr].usr_isadmin
         /\ sess[s].req.id \in DOMAIN pre[s].orders)
        => /\ sess[s].resp.code = 200
           /\ orders = [pre[s].orders EXCEPT
                            ![sess[s].req.id].ord_status = sess[s].req.ord_status]
           /\ orders_items = pre[s].orders_items

\* C13: an order status update by an admin on an order id that does not exist
\* is answered 404, not an internal error, and changes nothing.
C13_AdminStatusNotFound ==
    \A s \in Sessions :
        (/\ CallDone(s, "update_order_status")
         /\ users[sess[s].req.usr].usr_isadmin
         /\ sess[s].req.id \notin DOMAIN pre[s].orders)
        => /\ sess[s].resp.code = 404
           /\ Tables = pre[s]

\* The operations that write the order and product tables.
MutatingOps ==
    {"create_order", "update_order_status", "delete_order",
     "create_product", "update_product", "delete_product"}

\* C14: every mutating operation called by a user who is no admin is answered
\* 403 and leaves the tables as they were.
C14_NonAdminForbidden ==
    \A s \in Sessions :
        (/\ sess[s].pc = "done"
         /\ sess[s].req.op \in MutatingOps
         /\ ~users[sess[s].req.usr].usr_isadmin)
        => /\ sess[s].resp.code = 403
           /\ Tables = pre[s]

\* C15: every successful login returns an access token that expires 30 minutes
\* and a refresh token that expires 10080 minutes after the login, both with the
\* logged-in user's id as subject; the refresh token expires strictly later.
C15_LoginTokenPair ==
    \A s \in Sessions :
        (CallDone(s, "login") /\ sess[s].resp.code = 200)
        => LET body == sess[s].resp.body
               user == UserByEmail(sess[s].req.email)
           IN /\ DOMAIN body = {"access_token", "refresh_token", "token_type"}
              /\ body.access_token.exp = sess[s].req.at + 30
              /\ body.refresh_token.exp = sess[s].req.at + 10080
              /\ user \in DOMAIN users
              /\ body.access_token.sub = str(user)
              /\ body.refresh_token.sub = str(user)
              /\ int(body.access_token.sub) = user
              /\ body.refresh_token.exp > body.access_token.exp

\* The non-admin user logged in some time after the start.
C15_Witness ==
    \E s \in Sessions :
        /\ CallDone(s, "login") /\ sess[s].resp.code = 200
        /\ sess[s].req.at > 0
        /\ sess[s].resp.body.access_token.sub = "2"

\* C16: a registration whose email an existing user already holds is answered
\* 400 "Email already registered" and leaves the users table as it was.
C16_DuplicateEmailRejected ==
    [][\A s \in Sessions :
        (/\ sess[s].pc # "done" /\ sess'[s].pc = "done"
         /\ sess'[s].req.op = "register"
         /\ \E u \in DOMAIN users : users[u].usr_email = sess'[s].req.email)
        => /\ sess'[s].resp.code = 400
           /\ sess'[s].resp.detail = "Email already registered"
           /\ users' = users
           /\ usr_id_seq' = usr_id_seq]_vars

\* A user who registered through the service tried to register again.
C16_Witness ==
    \E s \in Sessions :
        /\ CallDone(s, "register") /\ sess[s].resp.code = 400
        /\ \E u \in DOMAIN users :
                /\ u \notin {1, 2}
                /\ users[u].usr_email = sess[s].req.email

\* C17: a refresh request whose token is the empty string is answered 401
\* "Refresh token not provided"; the token is not decoded and no user is looked up.
C17_MissingRefreshToken ==
    /\ refresh_service(NoToken, now) = AuthResp(401, "Refresh token not provided", NoBody)
    /\ \A s \in Sessions :
        (CallDone(s, "refresh") /\ sess[s].req.token.raw = "")
        => sess[s].resp = AuthResp(401, "Refresh token not provided", NoBody)

\* A refresh request with the empty token was answered.
C17_Witness ==
    \E s \in Sessions :
        /\ CallDone(s, "refresh") /\ sess[s].req.token = NoToken
        /\ sess[s].resp.code = 401

\* The token is not empty and cannot be used at time t: it is no JWT, or is
\* signed with another key, or has expired.
Unusable(token, t) ==
    /\ token.raw # ""
    /\ \/ token.raw # "jwt"
       \/ token.key # SECRET_KEY_AUTH
       \/ token.exp <= t

\* C18: a refresh request with an expired token and one with a malformed or
\* wrongly signed token get the same answer, 401 "Invalid or expired refresh
\* token", so the caller cannot tell the two causes apart.
C18_RefreshFailureUniform ==
    \A s \in Sessions :
        (CallDone(s, "refresh") /\ Unusable(sess[s].req.token, sess[s].req.at))
        => /\ sess[s].resp.code = 401
           /\ sess[s].resp.detail = "Invalid or expired refresh token"

\* C19: a successful refresh returns a new access token only, expiring 30
\* minutes later, with the subject of the token presented; no refresh token is
\* issued, the token presented keeps working until it expires, and no table is
\* written.
C19_RefreshNotRotated ==
    [][\A s \in Sessions :
        (/\ sess[s].pc = "idle" /\ sess'[s].pc = "done"
         /\ sess'[s].req.op = "refresh"
         /\ sess'[s].resp.code = 200)
        => LET token == sess'[s].req.token
               body == sess'[s].resp.body
           IN /\ DOMAIN body = {"access_token", "token_type"}
              /\ body.access_token.exp = now + 30
              /\ body.access_token.sub = token.sub
              /\ body.access_token.key = SECRET_KEY_AUTH
              /\ issued' = issued \cup {body.access_token}
              /\ users' = users /\ usr_id_seq' = usr_id_seq
              /\ \A t \in Times :
                    (t >= now /\ t < token.exp) => refresh_service(token, t).code = 200
              /\ products' = products /\ orders' = orders
              /\ orders_items' = orders_items]_vars

\* A refresh token obtained by a login was used some time after the login.
C19_Witness ==
    \E s \in Sessions :
        /\ CallDone(s, "refresh") /\ sess[s].resp.code = 200
        /\ sess[s].req.token \in issued
        /\ sess[s].req.token.exp > sess[s].req.at + 30
        /\ sess[s].req.at > 0

\* The token is signed by the server and not expired at time t, and its subject
\* is the id of no user row.
OutlivesUser(token, t) ==
    /\ token.raw = "jwt" /\ token.key = SECRET_KEY_AUTH /\ token.exp > t
    /\ IsNumeric(token.sub)
    /\ int(token.sub) \notin DOMAIN users

\* C20: a validly signed, unexpired token whose subject is no persisted user is
\* rejected with 401 by get_current_user and by refresh_service, and a request
\* that carries it is answered 401 without its operation having run.
C20_UnknownSubjectRejected ==
    /\ \A token \in Presented :
        OutlivesUser(token, now)
        => /\ get_current_user(token, now).code = 401
           /\ refresh_service(token, now).code = 401
    /\ \A s \in Sessions :
        (/\ sess[s].pc = "done"
         /\ sess[s].req.op \in {"create_product", "refresh"}
         /\ "token" \in DOMAIN sess[s].req
         /\ OutlivesUser(sess[s].req.token, sess[s].req.at))
        => /\ sess[s].resp.code = 401
           /\ sess[s].resp.body = NoBody
           /\ Tables = pre[s]

\* A product creation carrying the token of a user that is gone was refused.
C20_Witness ==
    \E s \in Sessions :
        /\ sess[s].pc = "done" /\ sess[s].req.op = "create_product"
        /\ "token" \in DOMAIN sess[s].req
        /\ OutlivesUser(sess[s].req.token, sess[s].req.at)
        /\ sess[s].resp.code = 401
        /\ sess[s].resp.detail = "User not found"

\* A token of the body of a successful login or refresh answer of session s.
IssuedTo(s) ==
    IF /\ sess[s].pc = "done" /\ sess[s].req.op \in {"login", "refresh"}
       /\ sess[s].resp.code = 200
    THEN TokensOf(sess[s].resp.body)
    ELSE {}

\* C21: a token made by create_access_token for subject u at time T with ttl m
\* decodes, at any time before T + m, to a subject that reads as the integer u;
\* at any time after T + m decoding fails with the expired-token error; a token
\* with a bad structure or signature fails with the malformed-token error.
C21_TokenRoundTrip ==
    /\ \A u \in DOMAIN users, m \in {30, 10080}, t \in Times :
        LET token == create_access_token(u, m, now)
            d == decode_token_str(token, t)
        IN /\ (t >= now /\ t < now + m) => (d.code = 200 /\ int(d.sub) = u)
           /\ t > now + m => d = Failure(401, "Token has expired")
    /\ \A s \in Sessions : \A token \in IssuedTo(s) : \A t \in Times :
        LET d == decode_token_str(token, t)
        IN /\ (t >= sess[s].req.at /\ t < token.exp) => d.code = 200
           /\ t > token.exp => d = Failure(401, "Token has expired")
    /\ \A token \in {Garbage, WrongKey, NoToken}, t \in Times :
        decode_token_str(token, t) = Failure(401, "Could not validate credentials")

\* A login's access token has expired since, its refresh token has not.
C21_Witness ==
    \E s \in Sessions :
        /\ CallDone(s, "login") /\ sess[s].resp.code = 200
        /\ now > sess[s].resp.body.access_token.exp
        /\ now < sess[s].resp.body.refresh_token.exp
        /\ decode_token_str(sess[s].resp.body.refresh_token, now).sub = "2"

\* C22: after any sequence of product creations, product updates and order
\* creations, every product's current stock is at least 0.
C22_StockNeverNegativeAnyOp ==
    \A p \in DOMAIN products : products[p].prd_current_stock >= 0

\* C23 as stated: every order create_order_service persists is owned by the
\* caller and has the status the request carries, "PENDING" when it carries none.
C23_Original ==
    \A s \in Sessions :
        (CallDone(s, "create_order") /\ sess[s].resp.code = 201)
        => /\ orders[sess[s].ord_id].ord_usr_id = sess[s].req.usr
           /\ orders[sess[s].ord_id].ord_status = sess[s].req.ord_status

\* C23 amended: every order create_order_service persists is owned by the
\* caller; its status is the one the request carries, and "PENDING" when the
\* request carries none or carries the empty string.
C23_OwnerAndStatus ==
    \A s \in Sessions :
        (CallDone(s, "create_order") /\ sess[s].resp.code = 201)
        => /\ orders[sess[s].ord_id].ord_usr_id = sess[s].req.usr
           /\ orders[sess[s].ord_id].ord_status =
                IF sess[s].req.ord_status = "" THEN "PENDING"
                ELSE sess[s].req.ord_status

\* The admin's order with an empty status was stored as "PENDING" next to the
\* other user's order, stored with the status sent.
C23_Witness ==
    \E s \in Sessions :
        /\ CallDone(s, "create_order") /\ sess[s].resp.code = 201
        /\ sess[s].req.usr = 1 /\ sess[s].req.ord_status = ""
        /\ orders[sess[s].ord_id].ord_status = "PENDING"
        /\ \E o \in DOMAIN orders :
                orders[o].ord_usr_id = 2 /\ orders[o].ord_status = "PAID"

\* C24: a user that register_service creates is no admin, no operation changes
\* the admin flag of a user, and the set of admins never changes.
C24_AdminSetConstant ==
    [][/\ \A u \in DOMAIN users :
            u \in DOMAIN users' /\ users'[u].usr_isadmin = users[u].usr_isadmin
       /\ \A u \in DOMAIN users' \ DOMAIN users : ~users'[u].usr_isadmin
       /\ {u \in DOMAIN users' : users'[u].usr_isadmin}
            = {u \in DOMAIN users : users[u].usr_isadmin}]_vars

\* A user has registered and then taken part in a guarded request.
C24_Witness ==
    /\ \E u \in DOMAIN users : u \notin {1, 2} /\ ~users[u].usr_isadmin
    /\ {u \in DOMAIN users : users[u].usr_isadmin} = {1}
    /\ \E s \in Sessions : sess[s].pc = "done" /\ sess[s].req.op # "register"

\* No client other than id holds a value the update carries.
NobodyElseHolds(id, data) ==
    \A f \in DOMAIN data : \A c \in DOMAIN clients \ {id} : clients[c][f] # data[f]

\* C25: a client update by an admin on a client that exists, with an email or
\* CPF that no other client holds, is answered 200 and stores the new value; it
\* is answered 400 only when another client holds the email or the CPF.
C25_ClientUpdateStored ==
    [][\A s \in Sessions :
        (/\ sess[s].pc = "idle" /\ sess'[s].pc = "done"
         /\ sess'[s].req.op = "update_client"
         /\ users[sess'[s].req.usr].usr_isadmin
         /\ sess'[s].req.id \in DOMAIN clients)
        => LET id == sess'[s].req.id
               data == sess'[s].req.data
           IN /\ NobodyElseHolds(id, data)
                    => /\ sess'[s].resp.code = 200
                       /\ \A f \in DOMAIN data : clients'[id][f] = data[f]
              /\ sess'[s].resp.code = 400 => ~NobodyElseHolds(id, data)]_vars

\* The request of s lists one product in two of its items.
RepeatsProduct(s) ==
    /\ Len(sess[s].req.items) = 2
    /\ sess[s].req.items[1].ord_prd_id = sess[s].req.items[2].ord_prd_id

\* C26: when a create-order call lists one product in several items, each stock
\* check sees the stock less the earlier items of the call: the call succeeds
\* only if the quantities asked of the product add up to at most its stock at
\* the start, and then the stock is reduced by their sum.
C26_RepeatedProductAccumulates ==
    \A s \in Sessions :
        (CallDone(s, "create_order") /\ RepeatsProduct(s))
        => LET p == sess[s].req.items[1].ord_prd_id
               total == TotalQuantity(sess[s].req.items, p)
           IN /\ total = sess[s].req.items[1].ord_it_quant
                            + sess[s].req.items[2].ord_it_quant
              /\ sess[s].resp.code = 201
                    => /\ p \in DOMAIN pre[s].products
                       /\ total <= pre[s].products[p].prd_current_stock
                       /\ products[p].prd_current_stock =
                            pre[s].products[p].prd_current_stock - total
              /\ (/\ p \in DOMAIN pre[s].products
                  /\ total > pre[s].products[p].prd_current_stock)
                    => (sess[s].resp.code = 400 /\ Tables = pre[s])

\* Two items of one unit each took the two units there were.
C26_Witness ==
    \E s \in Sessions :
        /\ CallDone(s, "create_order") /\ RepeatsProduct(s)
        /\ sess[s].resp.code = 201
        /\ pre[s].products[sess[s].req.items[1].ord_prd_id].prd_current_stock = 2
        /\ products[sess[s].req.items[1].ord_prd_id].prd_current_stock = 0

\* C27: while only create-order calls run, in any order and interleaving, each
\* product's current stock plus the quantities of the persisted items that
\* reference it equals its stock before the first call.  A request that began
\* while no order was persisted holds that first stock in its snapshot.
C27_StockConserved ==
    ops = 0 =>
        \A s \in Sessions :
            (sess[s].pc # "idle" /\ DOMAIN pre[s].orders = {})
            => \A p \in DOMAIN products :
                    products[p].prd_current_stock + TotalQuantity(orders_items, p)
                        = pre[s].products[p].prd_current_stock

\* C28: after any sequence of order and product operations, deletions of
\* referenced products and of orders included, every persisted order item
\* references an order that exists and a product that exists.
C28_ItemsReferenceExistingRows ==
    \A i \in 1 .. Len(orders_items) :
        /\ orders_items[i].ord_id \in DOMAIN orders
        /\ orders_items[i].ord_prd_id \in DOMAIN products

\* An admin tried to delete a product that an order item references.
C28_Witness ==
    \E s \in Sessions :
        /\ CallDone(s, "delete_product")
        /\ users[sess[s].req.usr].usr_isadmin
        /\ \E i \in 1 .. Len(orders_items) :
                orders_items[i].ord_prd_id = sess[s].req.id
        /\ sess[s].resp.code = 500

\* The token is signed by the server and not expired at time t, and its subject
\* is the id of a user row.
UsableToken(token, t) ==
    /\ token.raw = "jwt" /\ token.key = SECRET_KEY_AUTH /\ token.exp > t
    /\ IsNumeric(token.sub)
    /\ int(token.sub) \in DOMAIN users

\* C29: refresh_service accepts any validly signed, unexpired token of an
\* existing user, whatever it was issued as: an access token from a login or
\* from an earlier refresh is exchanged for a new access token.
C29_RefreshAcceptsAnyToken ==
    /\ \A token \in Presented :
        UsableToken(token, now) => refresh_service(token, now).code = 200
    /\ \A s \in Sessions :
        (CallDone(s, "refresh") /\ UsableToken(sess[s].req.token, sess[s].req.at))
        => /\ sess[s].resp.code = 200
           /\ sess[s].resp.body.access_token.sub = sess[s].req.token.sub
           /\ sess[s].resp.body.access_token.exp = sess[s].req.at + 30

\* An access token issued some time after the start was exchanged for a new one.
C29_Witness ==
    \E s \in Sessions :
        /\ CallDone(s, "refresh") /\ sess[s].resp.code = 200
        /\ sess[s].req.token \in issued
        /\ sess[s].req.token.exp <= sess[s].req.at + 30
        /\ sess[s].req.token.exp > 30
        /\ sess[s].resp.body.access_token # sess[s].req.token

\* C30: user emails are unique in every reachable state, also when two
\* registrations of one email both pass the existence check before either
\* commits.
C30_EmailsUnique ==
    \A u, v \in DOMAIN users :
        users[u].usr_email = users[v].usr_email => u = v

\* Two overlapping registrations of one email both passed the check; one was
\* stored and the other failed at its commit.
C30_Witness ==
    \E s, t \in Sessions :
        /\ CallDone(s, "register") /\ sess[s].resp.code = 200
        /\ CallDone(t, "register") /\ sess[t].resp.code = 500
        /\ sess[s].req.email = sess[t].req.email
        /\ Cardinality({u \in DOMAIN users :
                            users[u].usr_email = sess[s].req.email}) = 1

====
